---- MODULE Spec2Model ----
(***************************************************************************)
(* Model of BedrockLangfuseTracer (src/agent_trace.py; src/src/agent_trace.py *)
(* holds the same statements with docstrings added): the controller        *)
(* trace_agent_interaction, the reducer _process_orchestration_trace /     *)
(* _process_observation, and the payload normalizer _safe_json_loads.      *)
(* The Langfuse sink and the Bedrock agent backend are external: every     *)
(* call to them either succeeds or raises.  The sink's view of the session *)
(* (which handles are open, how often end was invoked) is recorded in the  *)
(* variables below the program's locals.                                   *)
(***************************************************************************)
EXTENDS Integers, Sequences, FiniteSets, TLC

VARIABLES
    pc,          \* position of each call of trace_agent_interaction
    spanBound,   \* 'orchestration_span' in locals()
    exc,         \* message of the exception being handled (error_msg)
    cur,         \* the event of the running loop iteration
    consumed,    \* events pulled from response['completion'] so far
    result,      \* what the call returned, or the fault that escaped it
    traceMade,   \* sink: langfuse.trace(id = session_id) succeeded
    traceMeta,   \* sink: the metadata of each trace.update, in order
    rootState,   \* sink: "unopened", "open" or "closed" root span
    rootEnds,    \* sink: every invocation of orchestration_span.end
    nextHandle,  \* sink: number of the next generation / child span handle
    openGens,    \* sink: generations opened and not yet ended
    openSpans,   \* sink: collaborator spans opened and not yet ended
    ops,         \* sink: operations performed for the running iteration
    processed,   \* events handed to _process_trace_chunk
    failed,      \* events whose processing raised
    errEvents    \* 'chunk_processing_error' events accepted by the sink

vars == <<pc, spanBound, exc, cur, consumed, result, traceMade, traceMeta,
          rootState, rootEnds, nextHandle, openGens, openSpans, ops,
          processed, failed, errEvents>>

(***************************************************************************)
(* Bounds.                                                                 *)
(***************************************************************************)
NumSessions == 2
MaxEvents == 2

Sessions == 1..NumSessions
MainSession == 1

(***************************************************************************)
(* Python values.  A missing dict key is Absent (numbers) or AbsentStr     *)
(* (strings); the empty dict is the function with the empty domain.        *)
(***************************************************************************)
Absent == -1
AbsentStr == "<absent>"
EmptyDict == [k \in {} |-> 0]
NoExc == "<none>"

\* dict.get(key, default)
Get(v, default) == IF v = Absent THEN default ELSE v
GetStr(v, default) == IF v = AbsentStr THEN default ELSE v

(***************************************************************************)
(* Payloads handed to _safe_json_loads.  kind is the Python type; body     *)
(* names the characters: "obj" is the text of a JSON object, "num" the     *)
(* text of a JSON number, "bad" text that is not JSON, "empty" the empty   *)
(* text, "badutf8" bytes that are not UTF-8.                               *)
(***************************************************************************)
Payloads ==
    [kind : {"str"}, body : {"obj", "num", "bad", "empty"}]
    \cup [kind : {"bytes"}, body : {"obj", "num", "bad", "empty", "badutf8"}]
    \cup [kind : {"dict"}, body : {"obj"}]
    \cup [kind : {"other"}, body : {"num"}]

\* json.loads on text: the parsed value, or JSONDecodeError
JsonLoads(body) ==
    CASE body = "obj" -> [raised |-> FALSE, value |-> [t |-> "dict", json |-> "obj"]]
      [] body = "num" -> [raised |-> FALSE, value |-> [t |-> "int", json |-> "num"]]
      [] OTHER        -> [raised |-> TRUE, value |-> [t |-> "none", json |-> body]]

\* bytes.decode('utf-8'): the text, or UnicodeDecodeError
Utf8Decode(body) ==
    IF body = "badutf8" THEN [raised |-> TRUE, text |-> ""]
    ELSE [raised |-> FALSE, text |-> body]

\* {"content": text}
Wrap(text) == [t |-> "dict", content |-> text]
\* str(data) of a value that is not text
StrOf(data) == [str |-> data]

safe_json_loads(data) ==
    IF data.kind = "str" THEN
        IF JsonLoads(data.body).raised
        THEN Wrap([text |-> data.body])
        ELSE JsonLoads(data.body).value
    ELSE IF data.kind = "bytes" THEN
        IF Utf8Decode(data.body).raised
        THEN Wrap(StrOf(data))
        ELSE IF JsonLoads(Utf8Decode(data.body).text).raised
             THEN Wrap(StrOf(data))
             ELSE JsonLoads(Utf8Decode(data.body).text).value
    ELSE IF data.kind = "dict" THEN [t |-> "dict", json |-> data.body]
    ELSE Wrap(StrOf(data))

\* json.dumps(value, ensure_ascii=False)
JsonDumps(value) == [dumps |-> value]

(***************************************************************************)
(* Raw events of response['completion'].  nav says how far the path        *)
(* event -> trace -> trace -> orchestrationTrace exists; keys are the keys *)
(* of the orchestrationTrace dict in their dict order; content, meta,      *)
(* inTok and outTok describe modelInvocationOutput; obsKeys and hasName    *)
(* describe observation.  fault names the place where processing of the    *)
(* event raises (a malformed value or a sink call that fails), "none" when *)
(* it does not.                                                            *)
(***************************************************************************)
Priority == <<"modelInvocationInput", "modelInvocationOutput", "rationale", "observation">>
Reverse(q) == [i \in 1..Len(q) |-> q[Len(q) + 1 - i]]
InSet(S) == [k \in {"modelInvocationInput", "modelInvocationOutput", "rationale", "observation"}
                |-> k \in S]
Asc(S) == LET in == InSet(S) T(k) == in[k] IN SelectSeq(Priority, T)
Desc(S) == Reverse(Asc(S))
KeySeqs == {Asc(S) : S \in SUBSET {Priority[i] : i \in 1..4}}
           \cup {Desc(S) : S \in SUBSET {Priority[i] : i \in 1..4}}

HasKey(ot, k) == \E i \in DOMAIN ot.keys : ot.keys[i] = k

NoContent == [kind |-> "absent", body |-> ""]
StreamContents == {NoContent, [kind |-> "str", body |-> "obj"]}
InTokens == {Absent, 10}
OutTokens == {Absent, 5}
FaultPoints == {"none", "nav", "input", "output", "rationale", "observation",
                "final", "collabOpen", "collabEnd"}

\* the fault point lies on the path the code takes through the event
FaultReachable(ev) ==
    CASE ev.fault = "none"        -> TRUE
      [] ev.fault = "nav"         -> TRUE
      [] ev.fault = "input"       -> HasKey(ev, "modelInvocationInput")
      [] ev.fault = "output"      -> HasKey(ev, "modelInvocationInput")
                                     /\ HasKey(ev, "modelInvocationOutput")
      [] ev.fault = "rationale"   -> HasKey(ev, "rationale")
      [] ev.fault = "observation" -> HasKey(ev, "observation")
      [] ev.fault = "final"       -> "finalResponse" \in ev.obsKeys
      [] ev.fault = "collabOpen"  -> "agentCollaboratorInvocationOutput" \in ev.obsKeys
      [] ev.fault = "collabEnd"   -> "agentCollaboratorInvocationOutput" \in ev.obsKeys
      [] OTHER                    -> FALSE

\* the place of a key, and of a fault point, in the order the code reads them
KeyRank(k) ==
    CASE k = "modelInvocationInput"  -> 1
      [] k = "modelInvocationOutput" -> 2
      [] k = "rationale"             -> 3
      [] k = "observation"           -> 4
FaultRank(point) ==
    CASE point = "input"     -> 1
      [] point = "output"    -> 2
      [] point = "rationale" -> 3
      [] OTHER               -> 4

\* fields nothing reads are kept at their defaults: the description of an
\* output that is never reached, and whatever lies behind the fault point
WellFormed(ev) ==
    /\ FaultReachable(ev)
    /\ (ev.nav # "ok" \/ ev.fault = "nav") => ev.keys = << >>
    /\ ~(HasKey(ev, "modelInvocationInput") /\ HasKey(ev, "modelInvocationOutput")) =>
           ev.content = NoContent /\ ev.meta = "nometa"
    /\ ev.meta # "usage" => ev.inTok = Absent /\ ev.outTok = Absent
    /\ ~HasKey(ev, "observation") => ev.obsKeys = {}
    /\ "agentCollaboratorInvocationOutput" \notin ev.obsKeys => ~ev.hasName
    /\ ev.fault \notin {"none", "nav"} =>
        /\ \A i \in DOMAIN ev.keys : KeyRank(ev.keys[i]) <= FaultRank(ev.fault)
        /\ \A i \in DOMAIN ev.keys : \A j \in DOMAIN ev.keys :
               i < j => KeyRank(ev.keys[i]) < KeyRank(ev.keys[j])
        /\ ev.content = NoContent /\ ev.meta = "nometa"
        /\ ev.fault = "observation" => ev.obsKeys = {}
        /\ ev.fault = "final" => ev.obsKeys = {"finalResponse"}
        /\ ev.fault = "collabOpen" => ~ev.hasName

Events ==
    {ev \in [nav : {"ok", "noTrace", "noInner", "noOrch"},
             keys : KeySeqs,
             content : StreamContents,
             meta : {"nometa", "nousage", "usage"},
             inTok : InTokens,
             outTok : OutTokens,
             obsKeys : SUBSET {"finalResponse", "agentCollaboratorInvocationOutput"},
             hasName : BOOLEAN,
             fault : FaultPoints] : WellFormed(ev)}

NoEvent == [nav |-> "none", keys |-> << >>, content |-> NoContent, meta |-> "nometa",
            inTok |-> Absent, outTok |-> Absent, obsKeys |-> {}, hasName |-> FALSE,
            fault |-> "none"]

\* str(exception) of the fault raised at a place
ErrText(point) == "error at " \o point

(***************************************************************************)
(* The reducer.  A run of _process_trace_chunk is the record               *)
(*   [ops: the sink operations performed, in order,                        *)
(*    next: the number of the next handle the sink hands out,              *)
(*    exc: the message of the exception that ended the run, or NoExc]      *)
(* A sink call that raises performs no operation.                          *)
(***************************************************************************)
Raise(run, point) == [run EXCEPT !.exc = ErrText(point)]
Do(run, op) == [run EXCEPT !.ops = Append(@, op)]

\* output.get("rawResponse", {}).get("content", "")
ContentOf(ot) ==
    IF ot.content = NoContent THEN [kind |-> "str", body |-> "empty"] ELSE ot.content

\* the usage dict with the two token counts exchanged
UsageSwapped(ot) ==
    IF ot.meta = "usage"
    THEN [input |-> Get(ot.outTok, 0), output |-> Get(ot.inTok, 0), unit |-> "TOKENS"]
    ELSE EmptyDict

\* the usage dict of lines 84-90
UsageOf(ot) ==
    IF ot.meta = "usage"
    THEN [input |-> Get(ot.inTok, 0), output |-> Get(ot.outTok, 0), unit |-> "TOKENS"]
    ELSE EmptyDict

\* lines 79-95: the output block, nested in the input block; generation is
\* the local bound at line 67
ModelOutput(run, ot, generation) ==
    IF ~HasKey(ot, "modelInvocationOutput") THEN run
    ELSE IF ot.fault = "output" THEN Raise(run, "output")
    ELSE Do(run, [op |-> "generation.end", id |-> generation,
                  output |-> JsonDumps(safe_json_loads(ContentOf(ot))),
                  usage_details |-> UsageOf(ot)])

\* the output block moved out of the input block: without an input the local
\* generation is unbound when generation.end is reached
ModelInvocationUnnested(run, ot) ==
    IF ~HasKey(ot, "modelInvocationInput")
    THEN IF HasKey(ot, "modelInvocationOutput") THEN Raise(run, "output") ELSE run
    ELSE IF ot.fault = "input" THEN Raise(run, "input")
    ELSE ModelOutput([Do(run, [op |-> "generation", id |-> run.next,
                               name |-> "model_invocation", model |-> "bedrock-agent"])
                         EXCEPT !.next = @ + 1],
                     ot, run.next)

\* lines 65-95
ModelInvocation(run, ot) ==
    IF ~HasKey(ot, "modelInvocationInput") THEN run
    ELSE IF ot.fault = "input" THEN Raise(run, "input")
    ELSE ModelOutput([Do(run, [op |-> "generation", id |-> run.next,
                               name |-> "model_invocation", model |-> "bedrock-agent"])
                         EXCEPT !.next = @ + 1],
                     ot, run.next)

\* lines 98-105
Rationale(run, ot) ==
    IF ~HasKey(ot, "rationale") THEN run
    ELSE IF ot.fault = "rationale" THEN Raise(run, "rationale")
    ELSE Do(run, [op |-> "event", name |-> "rationale"])

\* lines 116-121
FinalResponse(run, ot) ==
    IF "finalResponse" \notin ot.obsKeys THEN run
    ELSE IF ot.fault = "final" THEN Raise(run, "final")
    ELSE Do(run, [op |-> "event", name |-> "final_response"])

\* f"collaborator_{output.get('agentCollaboratorName', 'unknown')}"
CollaboratorName(ot) ==
    "collaborator_" \o GetStr(IF ot.hasName THEN "helper" ELSE AbsentStr, "unknown")

\* the collaborator span opened and never ended
CollaboratorLeftOpen(run, ot) ==
    IF "agentCollaboratorInvocationOutput" \notin ot.obsKeys THEN run
    ELSE IF ot.fault = "collabOpen" THEN Raise(run, "collabOpen")
    ELSE [Do(run, [op |-> "span", id |-> run.next, name |-> CollaboratorName(ot)])
             EXCEPT !.next = @ + 1]

\* lines 123-133
Collaborator(run, ot) ==
    IF "agentCollaboratorInvocationOutput" \notin ot.obsKeys THEN run
    ELSE IF ot.fault = "collabOpen" THEN Raise(run, "collabOpen")
    ELSE LET opened == [Do(run, [op |-> "span", id |-> run.next,
                                 name |-> CollaboratorName(ot)])
                           EXCEPT !.next = @ + 1]
         IN  IF ot.fault = "collabEnd" THEN Raise(opened, "collabEnd")
             ELSE Do(opened, [op |-> "span.end", id |-> run.next])

process_observation(run, ot) ==
    IF ot.fault = "observation" THEN Raise(run, "observation")
    ELSE LET afterFinal == FinalResponse(run, ot)
         IN  IF afterFinal.exc # NoExc THEN afterFinal
             ELSE Collaborator(afterFinal, ot)

Observation(run, ot) ==
    IF ~HasKey(ot, "observation") THEN run ELSE process_observation(run, ot)

\* the blocks taken in the order of the record's keys
BlockOrderByKeys(ot) ==
    LET IsBlock(k) == k # "modelInvocationOutput" IN SelectSeq(ot.keys, IsBlock)

\* the if-blocks of _process_orchestration_trace, in the order of the text
BlockOrder(ot) == <<"modelInvocationInput", "rationale", "observation">>

Block(name, run, ot) ==
    CASE name = "modelInvocationInput" -> ModelInvocation(run, ot)
      [] name = "rationale"            -> Rationale(run, ot)
      [] name = "observation"          -> Observation(run, ot)

RECURSIVE RunBlocks(_, _, _)
RunBlocks(blocks, run, ot) ==
    IF blocks = << >> \/ run.exc # NoExc THEN run
    ELSE RunBlocks(Tail(blocks), Block(Head(blocks), run, ot), ot)

process_orchestration_trace(run, ot) == RunBlocks(BlockOrder(ot), run, ot)

\* the path read by indexing, chunk["trace"]["trace"]["orchestrationTrace"]:
\* a missing level raises KeyError
process_trace_chunk_indexing(chunk, firstHandle) ==
    LET run == [ops |-> << >>, next |-> firstHandle, exc |-> NoExc]
    IN  IF chunk.fault = "nav" \/ chunk.nav # "ok" THEN Raise(run, "nav")
        ELSE process_orchestration_trace(run, chunk)

\* lines 56-60
process_trace_chunk(chunk, firstHandle) ==
    LET run == [ops |-> << >>, next |-> firstHandle, exc |-> NoExc]
    IN  IF chunk.fault = "nav" THEN Raise(run, "nav")
        ELSE IF chunk.nav = "ok" THEN process_orchestration_trace(run, chunk)
        ELSE run

(***************************************************************************)
(* The controller, trace_agent_interaction (lines 135-181).  session_id is *)
(* a fresh uuid4 per call: the session's number stands for it.             *)
(***************************************************************************)
Set(f, s, v) == [f EXCEPT ![s] = v]

Init ==
    /\ pc = [s \in Sessions |-> "create"]
    /\ spanBound = [s \in Sessions |-> FALSE]
    /\ exc = [s \in Sessions |-> NoExc]
    /\ cur = [s \in Sessions |-> NoEvent]
    /\ consumed = [s \in Sessions |-> 0]
    /\ result = [s \in Sessions |-> [status |-> "none"]]
    /\ traceMade = [s \in Sessions |-> FALSE]
    /\ traceMeta = [s \in Sessions |-> << >>]
    /\ rootState = [s \in Sessions |-> "unopened"]
    /\ rootEnds = [s \in Sessions |-> << >>]
    /\ nextHandle = [s \in Sessions |-> 1]
    /\ openGens = [s \in Sessions |-> {}]
    /\ openSpans = [s \in Sessions |-> {}]
    /\ ops = [s \in Sessions |-> << >>]
    /\ processed = [s \in Sessions |-> 0]
    /\ failed = [s \in Sessions |-> 0]
    /\ errEvents = [s \in Sessions |-> 0]

\* an exception leaves trace_agent_interaction
Escapes(s, point) ==
    /\ result' = Set(result, s, [status |-> "raised", message |-> ErrText(point)])
    /\ pc' = Set(pc, s, "done")

\* an exception inside the try block reaches 'except Exception as e'
Caught(s, point) ==
    /\ exc' = Set(exc, s, ErrText(point))
    /\ pc' = Set(pc, s, "except")

\* line 138: create_base_trace, before the try block
CreateTrace(s) ==
    /\ pc[s] = "create"
    /\ \/ /\ traceMade' = Set(traceMade, s, TRUE)
          /\ pc' = Set(pc, s, "span")
          /\ UNCHANGED result
       \/ /\ Escapes(s, "trace")
          /\ UNCHANGED traceMade
    /\ UNCHANGED <<spanBound, exc, cur, consumed, traceMeta, rootState, rootEnds,
                   nextHandle, openGens, openSpans, ops, processed, failed, errEvents>>

\* the root span kept on the tracer object, where every call sees it
OpenRootSpanShared(s) ==
    /\ pc[s] = "span"
    /\ \/ /\ spanBound' = [t \in Sessions |-> TRUE]
          /\ rootState' = Set(rootState, s, "open")
          /\ pc' = Set(pc, s, "invoke")
          /\ UNCHANGED exc
       \/ /\ Caught(s, "span")
          /\ UNCHANGED <<spanBound, rootState>>
    /\ UNCHANGED <<cur, consumed, result, traceMade, traceMeta, rootEnds,
                   nextHandle, openGens, openSpans, ops, processed, failed, errEvents>>

\* lines 142-145: trace.span(name="orchestration")
OpenRootSpan(s) ==
    /\ pc[s] = "span"
    /\ \/ /\ spanBound' = Set(spanBound, s, TRUE)
          /\ rootState' = Set(rootState, s, "open")
          /\ pc' = Set(pc, s, "invoke")
          /\ UNCHANGED exc
       \/ /\ Caught(s, "span")
          /\ UNCHANGED <<spanBound, rootState>>
    /\ UNCHANGED <<cur, consumed, result, traceMade, traceMeta, rootEnds,
                   nextHandle, openGens, openSpans, ops, processed, failed, errEvents>>

\* lines 149-155: bedrock.invoke_agent
InvokeAgent(s) ==
    /\ pc[s] = "invoke"
    /\ \/ /\ pc' = Set(pc, s, "iter")
          /\ UNCHANGED exc
       \/ Caught(s, "invoke_agent")
    /\ UNCHANGED <<spanBound, cur, consumed, result, traceMade, traceMeta, rootState,
                   rootEnds, nextHandle, openGens, openSpans, ops, processed, failed,
                   errEvents>>

\* a failure of the iteration taken for the end of the stream
PullEventEndsOnError(s, evs, max) ==
    /\ pc[s] = "iter"
    /\ \/ /\ consumed[s] < max
          /\ \E ev \in evs : cur' = Set(cur, s, ev)
          /\ consumed' = Set(consumed, s, consumed[s] + 1)
          /\ ops' = Set(ops, s, << >>)
          /\ pc' = Set(pc, s, "chunk")
          /\ UNCHANGED exc
       \/ /\ pc' = Set(pc, s, "end")
          /\ UNCHANGED <<cur, consumed, ops, exc>>
       \/ /\ exc' = Set(exc, s, ErrText("stream"))
          /\ pc' = Set(pc, s, "end")
          /\ UNCHANGED <<cur, consumed, ops>>
    /\ UNCHANGED <<spanBound, result, traceMade, traceMeta, rootState, rootEnds,
                   nextHandle, openGens, openSpans, processed, failed, errEvents>>

\* line 160: the for statement pulls the next event (one of evs, at most max
\* of them in a stream), finds the stream exhausted, or the iteration raises
PullEvent(s, evs, max) ==
    /\ pc[s] = "iter"
    /\ \/ /\ consumed[s] < max
          /\ \E ev \in evs : cur' = Set(cur, s, ev)
          /\ consumed' = Set(consumed, s, consumed[s] + 1)
          /\ ops' = Set(ops, s, << >>)
          /\ pc' = Set(pc, s, "chunk")
          /\ UNCHANGED exc
       \/ /\ pc' = Set(pc, s, "end")
          /\ UNCHANGED <<cur, consumed, ops, exc>>
       \/ /\ Caught(s, "stream")
          /\ UNCHANGED <<cur, consumed, ops>>
    /\ UNCHANGED <<spanBound, result, traceMade, traceMeta, rootState, rootEnds,
                   nextHandle, openGens, openSpans, processed, failed, errEvents>>

NextEvent(s) == PullEvent(s, Events, MaxEvents)

OpIds(q, kind) == {q[i].id : i \in {j \in DOMAIN q : q[j].op = kind}}

\* the reducer remembering the open generation of an earlier record and
\* ending it before the next record is processed
ProcessChunkEndsStale(s) ==
    /\ pc[s] = "chunk"
    /\ LET run == process_trace_chunk(cur[s], nextHandle[s])
           stale == IF openGens[s] = {} THEN << >>
                    ELSE <<[op |-> "generation.end", id |-> CHOOSE g \in openGens[s] : TRUE,
                            output |-> JsonDumps(safe_json_loads([kind |-> "str", body |-> "empty"])),
                            usage_details |-> EmptyDict]>>
       IN
        /\ ops' = Set(ops, s, stale \o run.ops)
        /\ nextHandle' = Set(nextHandle, s, run.next)
        /\ openGens' = Set(openGens, s, (openGens[s] \cup OpIds(run.ops, "generation"))
                                          \ OpIds(stale \o run.ops, "generation.end"))
        /\ openSpans' = Set(openSpans, s, (openSpans[s] \cup OpIds(run.ops, "span"))
                                            \ OpIds(run.ops, "span.end"))
        /\ processed' = Set(processed, s, processed[s] + 1)
        /\ IF run.exc = NoExc
           THEN /\ pc' = Set(pc, s, "chunk_done")
                /\ UNCHANGED <<exc, failed>>
           ELSE /\ pc' = Set(pc, s, "chunk_except")
                /\ exc' = Set(exc, s, run.exc)
                /\ failed' = Set(failed, s, failed[s] + 1)
    /\ UNCHANGED <<spanBound, cur, consumed, result, traceMade, traceMeta, rootState,
                   rootEnds, errEvents>>

\* lines 161-163: _process_trace_chunk(event, orchestration_span) in its try
ProcessChunk(s) ==
    /\ pc[s] = "chunk"
    /\ LET run == process_trace_chunk(cur[s], nextHandle[s]) IN
        /\ ops' = Set(ops, s, run.ops)
        /\ nextHandle' = Set(nextHandle, s, run.next)
        /\ openGens' = Set(openGens, s, (openGens[s] \cup OpIds(run.ops, "generation"))
                                          \ OpIds(run.ops, "generation.end"))
        /\ openSpans' = Set(openSpans, s, (openSpans[s] \cup OpIds(run.ops, "span"))
                                            \ OpIds(run.ops, "span.end"))
        /\ processed' = Set(processed, s, processed[s] + 1)
        /\ IF run.exc = NoExc
           THEN /\ pc' = Set(pc, s, "chunk_done")
                /\ UNCHANGED <<exc, failed>>
           ELSE /\ pc' = Set(pc, s, "chunk_except")
                /\ exc' = Set(exc, s, run.exc)
                /\ failed' = Set(failed, s, failed[s] + 1)
    /\ UNCHANGED <<spanBound, cur, consumed, result, traceMade, traceMeta, rootState,
                   rootEnds, errEvents>>

\* the failure of an event handed on to the outer handler
ChunkErrorReraises(s) ==
    /\ pc[s] = "chunk_except"
    /\ pc' = Set(pc, s, "except")
    /\ UNCHANGED <<spanBound, exc, cur, consumed, result, traceMade, traceMeta, rootState,
                   rootEnds, nextHandle, openGens, openSpans, ops, processed, failed,
                   errEvents>>

\* lines 163-168: except Exception as chunk_error
ChunkError(s) ==
    /\ pc[s] = "chunk_except"
    /\ \/ /\ ops' = Set(ops, s, Append(ops[s], [op |-> "event",
                                                name |-> "chunk_processing_error",
                                                input |-> exc[s]]))
          /\ errEvents' = Set(errEvents, s, errEvents[s] + 1)
          /\ exc' = Set(exc, s, NoExc)
          /\ pc' = Set(pc, s, "chunk_done")
       \/ /\ Caught(s, "event")
          /\ UNCHANGED <<ops, errEvents>>
    /\ UNCHANGED <<spanBound, cur, consumed, result, traceMade, traceMeta, rootState,
                   rootEnds, nextHandle, openGens, openSpans, processed, failed>>

\* the loop body is over: control is back at the for statement of line 160
LoopBack(s) ==
    /\ pc[s] = "chunk_done"
    /\ pc' = Set(pc, s, "iter")
    /\ cur' = Set(cur, s, NoEvent)
    /\ ops' = Set(ops, s, << >>)
    /\ UNCHANGED <<spanBound, exc, consumed, result, traceMade, traceMeta, rootState,
                   rootEnds, nextHandle, openGens, openSpans, processed, failed,
                   errEvents>>

\* the success path writing to the trace as well
EndRootSpanUpdatesTrace(s) ==
    /\ pc[s] = "end"
    /\ \/ /\ rootEnds' = Set(rootEnds, s, Append(rootEnds[s], [error |-> NoExc, raised |-> FALSE]))
          /\ rootState' = Set(rootState, s, "closed")
          /\ traceMeta' = Set(traceMeta, s, Append(traceMeta[s], [error |-> NoExc]))
          /\ result' = Set(result, s, [status |-> "success", trace_id |-> s])
          /\ pc' = Set(pc, s, "done")
          /\ UNCHANGED exc
       \/ /\ rootEnds' = Set(rootEnds, s, Append(rootEnds[s], [error |-> NoExc, raised |-> TRUE]))
          /\ Caught(s, "end")
          /\ UNCHANGED <<rootState, result, traceMeta>>
    /\ UNCHANGED <<spanBound, cur, consumed, traceMade, nextHandle,
                   openGens, openSpans, ops, processed, failed, errEvents>>

\* lines 170-171: orchestration_span.end() and the success result
EndRootSpan(s) ==
    /\ pc[s] = "end"
    /\ \/ /\ rootEnds' = Set(rootEnds, s, Append(rootEnds[s], [error |-> NoExc, raised |-> FALSE]))
          /\ rootState' = Set(rootState, s, "closed")
          /\ result' = Set(result, s, [status |-> "success", trace_id |-> s])
          /\ pc' = Set(pc, s, "done")
          /\ UNCHANGED exc
       \/ /\ rootEnds' = Set(rootEnds, s, Append(rootEnds[s], [error |-> NoExc, raised |-> TRUE]))
          /\ Caught(s, "end")
          /\ UNCHANGED <<rootState, result>>
    /\ UNCHANGED <<spanBound, cur, consumed, traceMade, traceMeta, nextHandle,
                   openGens, openSpans, ops, processed, failed, errEvents>>

\* the handler without the close of the root span
CloseOnErrorSkipsEnd(s) ==
    /\ pc[s] = "except"
    /\ pc' = Set(pc, s, "update")
    /\ UNCHANGED <<spanBound, exc, cur, consumed, result, traceMade, traceMeta, rootState,
                   rootEnds, nextHandle, openGens, openSpans, ops, processed, failed,
                   errEvents>>

\* the handler ending the root span without looking whether it was opened
CloseOnErrorUnguarded(s) ==
    /\ pc[s] = "except"
    /\ rootEnds' = Set(rootEnds, s, Append(rootEnds[s], [error |-> exc[s], raised |-> FALSE]))
    /\ rootState' = Set(rootState, s, "closed")
    /\ pc' = Set(pc, s, "update")
    /\ UNCHANGED <<spanBound, exc, cur, consumed, result, traceMade, traceMeta, nextHandle,
                   openGens, openSpans, ops, processed, failed, errEvents>>

\* lines 173-178: error_msg = str(e); the span is ended when it is in locals()
CloseOnError(s) ==
    /\ pc[s] = "except"
    /\ IF spanBound[s]
       THEN \/ /\ rootEnds' = Set(rootEnds, s, Append(rootEnds[s], [error |-> exc[s], raised |-> FALSE]))
               /\ rootState' = Set(rootState, s, "closed")
               /\ pc' = Set(pc, s, "update")
               /\ UNCHANGED result
            \/ /\ rootEnds' = Set(rootEnds, s, Append(rootEnds[s], [error |-> exc[s], raised |-> TRUE]))
               /\ Escapes(s, "end")
               /\ UNCHANGED rootState
       ELSE /\ pc' = Set(pc, s, "update")
            /\ UNCHANGED <<rootEnds, rootState, result>>
    /\ UNCHANGED <<spanBound, exc, cur, consumed, traceMade, traceMeta, nextHandle,
                   openGens, openSpans, ops, processed, failed, errEvents>>

\* lines 180-181: trace.update(metadata={"error": error_msg}) and the error result
UpdateTrace(s) ==
    /\ pc[s] = "update"
    /\ \/ /\ traceMeta' = Set(traceMeta, s, Append(traceMeta[s], [error |-> exc[s]]))
          /\ result' = Set(result, s, [status |-> "error", message |-> exc[s]])
          /\ pc' = Set(pc, s, "done")
       \/ /\ Escapes(s, "update")
          /\ UNCHANGED traceMeta
    /\ UNCHANGED <<spanBound, exc, cur, consumed, traceMade, rootState, rootEnds,
                   nextHandle, openGens, openSpans, ops, processed, failed, errEvents>>

trace_agent_interaction(s) ==
    \/ CreateTrace(s)
    \/ OpenRootSpan(s)
    \/ InvokeAgent(s)
    \/ NextEvent(s)
    \/ ProcessChunk(s)
    \/ ChunkError(s)
    \/ LoopBack(s)
    \/ EndRootSpan(s)
    \/ CloseOnError(s)
    \/ UpdateTrace(s)

\* one call of trace_agent_interaction
Next == trace_agent_interaction(MainSession)

Spec == Init /\ [][Next]_vars

TypeOK ==
    /\ \A s \in Sessions :
        /\ pc[s] \in {"create", "span", "invoke", "iter", "chunk", "chunk_except", "chunk_done",
                      "end", "except", "update", "done"}
        /\ consumed[s] \in 0..MaxEvents
        /\ processed[s] \in 0..MaxEvents

(***************************************************************************)
(* Vocabulary of the properties.                                           *)
(***************************************************************************)
Returned(s) == pc[s] = "done"
Completed(s) == Returned(s) /\ result[s].status = "success"
Failed(s) == Returned(s) /\ result[s].status = "error"

\* ProcessChunk has just run for session s
Reduced(s) == pc[s] = "chunk" /\ pc'[s] # "chunk"

\* the faults that end the session, as opposed to those of one event
FatalPoints == {"trace", "span", "invoke_agent", "stream", "event", "end", "update"}

OpsOf(q, kind) == {i \in DOMAIN q : q[i].op = kind}
EventsNamed(q, name) == {i \in OpsOf(q, "event") : q[i].name = name}

(***************************************************************************)
(* C1.  Once the root span was opened, orchestration_span.end has been     *)
(* invoked exactly once when the call is over, whatever collaborator       *)
(* failed on the way.                                                      *)
(***************************************************************************)
C1_RootEndInvokedExactlyOnce ==
    \A s \in Sessions : (Returned(s) /\ spanBound[s]) => Len(rootEnds[s]) = 1

(***************************************************************************)
(* C2.  No fault escapes trace_agent_interaction: when the call is over    *)
(* it has returned {status: success, trace_id} or {status: error, message}.*)
(***************************************************************************)
C2_NoFaultEscapes ==
    \A s \in Sessions :
        Returned(s) =>
            \/ result[s].status = "success" /\ DOMAIN result[s] = {"status", "trace_id"}
            \/ result[s].status = "error" /\ DOMAIN result[s] = {"status", "message"}

(***************************************************************************)
(* C3.  A failure while processing one event is not fatal.  Each failing   *)
(* event puts exactly one 'chunk_processing_error' event carrying its      *)
(* message on the root span; while the loop runs and when the session has  *)
(* completed, there are as many such events as failing events and every    *)
(* event pulled from the stream was processed; and a session that does not *)
(* end with success ended for a fatal fault (the stream, a sink call of    *)
(* the controller), never for the failure of an event.                     *)
(***************************************************************************)
C3_EventFailuresAreRecovered ==
    \A s \in Sessions :
        /\ (pc[s] = "chunk_done" /\ cur[s].fault # "none") =>
               /\ Cardinality(EventsNamed(ops[s], "chunk_processing_error")) = 1
               /\ ops[s][Len(ops[s])].op = "event"
               /\ ops[s][Len(ops[s])].name = "chunk_processing_error"
               /\ ops[s][Len(ops[s])].input = "error at " \o cur[s].fault
        /\ (pc[s] = "chunk_done" /\ cur[s].fault = "none") =>
               EventsNamed(ops[s], "chunk_processing_error") = {}
        /\ (pc[s] \in {"iter", "chunk_done", "end"} \/ Completed(s)) =>
               /\ errEvents[s] = failed[s]
               /\ processed[s] = consumed[s]
        /\ Completed(s) => result[s] = [status |-> "success", trace_id |-> s]
        /\ (Returned(s) /\ ~Completed(s)) =>
               result[s].message \in {"error at " \o p : p \in FatalPoints}

\* a first event failed, its error event was recorded, and the next event
\* of the stream has been processed
C3_Witness ==
    /\ pc[MainSession] = "chunk_done"
    /\ cur[MainSession].fault = "none"
    /\ processed[MainSession] = 2
    /\ failed[MainSession] = 1
    /\ errEvents[MainSession] = 1

(***************************************************************************)
(* C4.  When invoke_agent raises (and the sink accepts the close and the   *)
(* update that follow), no event is processed, the root span is closed     *)
(* exactly once with the message of the cause, the trace is updated with   *)
(* {error: message} and the call returns {status: error, message}.         *)
(***************************************************************************)
C4_AgentCallFailure ==
    \A s \in Sessions :
        exc[s] = "error at invoke_agent" =>
            /\ consumed[s] = 0 /\ processed[s] = 0 /\ ops[s] = << >>
            /\ ~Completed(s)
            /\ pc[s] = "except" => rootEnds[s] = << >> /\ traceMeta[s] = << >>
            /\ pc[s] = "update" =>
                   /\ rootEnds[s] = <<[error |-> "error at invoke_agent", raised |-> FALSE]>>
                   /\ rootState[s] = "closed"
                   /\ traceMeta[s] = << >>
            /\ Failed(s) =>
                   /\ rootEnds[s] = <<[error |-> "error at invoke_agent", raised |-> FALSE]>>
                   /\ rootState[s] = "closed"
                   /\ traceMeta[s] = <<[error |-> "error at invoke_agent"]>>
                   /\ result[s] = [status |-> "error", message |-> "error at invoke_agent"]

C4_Witness ==
    /\ Failed(MainSession)
    /\ exc[MainSession] = "error at invoke_agent"
    /\ Len(rootEnds[MainSession]) = 1

(***************************************************************************)
(* C5.  At most one generation is open at any time, and none is open once  *)
(* end has been invoked on the root span.                                  *)
(***************************************************************************)
C5_NoGenerationLeftOpen ==
    \A s \in Sessions :
        /\ Cardinality(openGens[s]) <= 1
        /\ rootEnds[s] # << >> => openGens[s] = {}

(***************************************************************************)
(* C6.  Whenever a modelInvocationOutput is processed while a generation   *)
(* is open, opened by the same record or by an earlier one, the reducer    *)
(* ends that generation and no generation is open afterwards.              *)
(***************************************************************************)
C6_OutputClosesOpenGeneration ==
    [][\A s \in Sessions :
        (/\ Reduced(s)
         /\ cur[s].fault = "none"
         /\ HasKey(cur[s], "modelInvocationOutput")
         /\ (openGens[s] # {} \/ HasKey(cur[s], "modelInvocationInput")))
        => /\ openGens'[s] = {}
           /\ OpsOf(ops'[s], "generation.end") # {}]_vars

(***************************************************************************)
(* C7.  When a modelInvocationInput is processed while an earlier          *)
(* generation is still open, the reducer first ends the stale generation   *)
(* and only then opens the new one.                                        *)
(***************************************************************************)
C7_StaleGenerationClosedFirst ==
    [][\A s \in Sessions :
        (/\ Reduced(s)
         /\ cur[s].fault = "none"
         /\ HasKey(cur[s], "modelInvocationInput")
         /\ openGens[s] # {})
        => /\ Len(ops'[s]) >= 2
           /\ ops'[s][1].op = "generation.end"
           /\ ops'[s][1].id \in openGens[s]
           /\ ops'[s][2].op = "generation"]_vars

(***************************************************************************)
(* C8.  A record with modelInvocationOutput and no modelInvocationInput,   *)
(* processed while no generation is open, causes no generation operation   *)
(* and no failure: nothing is opened or ended, no error event is emitted   *)
(* for it and the loop goes on.                                            *)
(***************************************************************************)
C8_OutputWithoutInputIsIgnored ==
    [][\A s \in Sessions :
        (/\ Reduced(s)
         /\ HasKey(cur[s], "modelInvocationOutput")
         /\ ~HasKey(cur[s], "modelInvocationInput")
         /\ openGens[s] = {})
        => /\ OpsOf(ops'[s], "generation") = {}
           /\ OpsOf(ops'[s], "generation.end") = {}
           /\ openGens'[s] = {}
           /\ nextHandle'[s] = nextHandle[s] + Cardinality(OpsOf(ops'[s], "span"))
           /\ cur[s].fault = "none" =>
                  pc'[s] = "chunk_done" /\ failed'[s] = failed[s] /\ exc'[s] = NoExc
           /\ cur[s].keys = <<"modelInvocationOutput">> => ops'[s] = << >>]_vars

C8_Witness ==
    /\ pc[MainSession] = "chunk_done"
    /\ cur[MainSession].keys = <<"modelInvocationOutput">>
    /\ openGens[MainSession] = {}
    /\ ops[MainSession] = << >>
    /\ failed[MainSession] = 0

(***************************************************************************)
(* C9.  A record with both modelInvocationInput and modelInvocationOutput  *)
(* opens exactly one generation and then ends exactly that one; the usage  *)
(* of the end is {input: inputTokens or 0, output: outputTokens or 0,      *)
(* unit: TOKENS} when the output has metadata.usage, the empty dict        *)
(* otherwise.                                                              *)
(***************************************************************************)
C9_InputOutputPair ==
    \A s \in Sessions :
        (/\ pc[s] = "chunk_done"
         /\ HasKey(cur[s], "modelInvocationInput")
         /\ HasKey(cur[s], "modelInvocationOutput")
         /\ cur[s].fault \notin {"nav", "input", "output"})
        => /\ Cardinality(OpsOf(ops[s], "generation")) = 1
           /\ Cardinality(OpsOf(ops[s], "generation.end")) = 1
           /\ ops[s][1].op = "generation"
           /\ ops[s][2].op = "generation.end"
           /\ ops[s][2].id = ops[s][1].id
           /\ ops[s][1].id \notin openGens[s]
           /\ ops[s][2].usage_details =
                  IF cur[s].meta = "usage"
                  THEN [input |-> IF cur[s].inTok = Absent THEN 0 ELSE cur[s].inTok,
                        output |-> IF cur[s].outTok = Absent THEN 0 ELSE cur[s].outTok,
                        unit |-> "TOKENS"]
                  ELSE EmptyDict

C9_Witness ==
    /\ pc[MainSession] = "chunk_done"
    /\ HasKey(cur[MainSession], "modelInvocationInput")
    /\ HasKey(cur[MainSession], "modelInvocationOutput")
    /\ cur[MainSession].inTok = 10 /\ cur[MainSession].outTok = 5
    /\ Len(ops[MainSession]) >= 2
    /\ ops[MainSession][2].op = "generation.end"
    /\ ops[MainSession][2].usage_details = [input |-> 10, output |-> 5, unit |-> "TOKENS"]

(***************************************************************************)
(* C10.  The sink operations of one record come in the fixed order open    *)
(* generation, end generation, rationale event, final_response event,      *)
(* collaborator span, whatever the order of the keys in the record; a      *)
(* record that does not fail causes exactly the operations of its keys.    *)
(***************************************************************************)
OpRank(o) ==
    CASE o.op = "generation"     -> 1
      [] o.op = "generation.end" -> 2
      [] o.op = "event" /\ o.name = "rationale"      -> 3
      [] o.op = "event" /\ o.name = "final_response" -> 4
      [] o.op = "span"           -> 5
      [] o.op = "span.end"       -> 6
      [] OTHER                   -> 7

C10_FixedOperationOrder ==
    \A s \in Sessions :
        pc[s] \in {"chunk_done", "chunk_except"} =>
            /\ \A i \in DOMAIN ops[s] : \A j \in DOMAIN ops[s] :
                   i < j => OpRank(ops[s][i]) < OpRank(ops[s][j])
            /\ cur[s].fault = "none" =>
                   {OpRank(ops[s][i]) : i \in DOMAIN ops[s]} =
                       (IF HasKey(cur[s], "modelInvocationInput") THEN {1} ELSE {})
                       \cup (IF HasKey(cur[s], "modelInvocationInput")
                                /\ HasKey(cur[s], "modelInvocationOutput") THEN {2} ELSE {})
                       \cup (IF HasKey(cur[s], "rationale") THEN {3} ELSE {})
                       \cup (IF "finalResponse" \in cur[s].obsKeys THEN {4} ELSE {})
                       \cup (IF "agentCollaboratorInvocationOutput" \in cur[s].obsKeys
                             THEN {5, 6} ELSE {})

\* a record whose keys come in the reverse of the processing order
C10_Witness ==
    /\ pc[MainSession] = "chunk_done"
    /\ cur[MainSession].keys = <<"observation", "rationale", "modelInvocationOutput",
                                 "modelInvocationInput">>
    /\ cur[MainSession].obsKeys = {"finalResponse", "agentCollaboratorInvocationOutput"}
    /\ Len(ops[MainSession]) = 6


(***************************************************************************)
(* C11.  An event without the path trace -> trace -> orchestrationTrace,   *)
(* at whatever level it ends, yields nothing: no sink operation, no error  *)
(* event, no failure counted, and the sink's open handles are as before.   *)
(***************************************************************************)
C11_EventWithoutPathIsIgnored ==
    [][\A s \in Sessions :
        (Reduced(s) /\ cur[s].nav # "ok" /\ cur[s].fault = "none")
        => /\ ops'[s] = << >>
           /\ pc'[s] = "chunk_done"
           /\ exc'[s] = NoExc
           /\ failed'[s] = failed[s]
           /\ errEvents'[s] = errEvents[s]
           /\ openGens'[s] = openGens[s]
           /\ openSpans'[s] = openSpans[s]
           /\ nextHandle'[s] = nextHandle[s]]_vars

\* an event whose inner trace dict has no orchestrationTrace, processed
\* after an event that left a generation open
C11_Witness ==
    /\ pc[MainSession] = "chunk_done"
    /\ cur[MainSession].nav = "noOrch"
    /\ processed[MainSession] = 2
    /\ openGens[MainSession] # {}
    /\ ops[MainSession] = << >>


(***************************************************************************)
(* C12.  An observation with agentCollaboratorInvocationOutput whose       *)
(* handling does not fail opens one child span named 'collaborator_' plus  *)
(* the collaborator's name ('collaborator_unknown' without a name) and     *)
(* ends that span in the very next sink operation; the record leaves no    *)
(* collaborator span open.                                                 *)
(***************************************************************************)
C12_CollaboratorSpanClosedAtOnce ==
    [][\A s \in Sessions :
        (Reduced(s) /\ cur[s].fault # "collabEnd")
        => /\ \A i \in OpsOf(ops'[s], "span") :
                  /\ ops'[s][i].name = IF cur[s].hasName THEN "collaborator_helper"
                                       ELSE "collaborator_unknown"
                  /\ i + 1 \in DOMAIN ops'[s]
                  /\ ops'[s][i + 1].op = "span.end"
                  /\ ops'[s][i + 1].id = ops'[s][i].id
           /\ Cardinality(OpsOf(ops'[s], "span")) =
                  IF "agentCollaboratorInvocationOutput" \in cur[s].obsKeys
                     /\ cur[s].fault = "none"
                  THEN 1 ELSE 0
           /\ Cardinality(OpsOf(ops'[s], "span.end")) = Cardinality(OpsOf(ops'[s], "span"))
           /\ openSpans'[s] = openSpans[s]]_vars

\* a collaborator output without a name has been processed
C12_Witness ==
    /\ pc[MainSession] = "chunk_done"
    /\ "agentCollaboratorInvocationOutput" \in cur[MainSession].obsKeys
    /\ ~cur[MainSession].hasName
    /\ cur[MainSession].fault = "none"
    /\ openSpans[MainSession] = {}
    /\ \E i \in DOMAIN ops[MainSession] :
           /\ ops[MainSession][i].op = "span"
           /\ ops[MainSession][i].name = "collaborator_unknown"


(***************************************************************************)
(* The normalizer at work: streams of records with a modelInvocationInput  *)
(* and a modelInvocationOutput whose rawResponse content is any payload,   *)
(* so that every branch of _safe_json_loads is taken at line 81.           *)
(***************************************************************************)
PayloadEvents ==
    {ev \in [nav : {"ok"},
             keys : {<<"modelInvocationInput", "modelInvocationOutput">>},
             content : Payloads \cup {NoContent},
             meta : {"nometa"},
             inTok : {Absent},
             outTok : {Absent},
             obsKeys : {{}},
             hasName : {FALSE},
             fault : {"none", "output"}] : ev.fault = "output" => ev.content = NoContent}

NextPayload(s) == PullEvent(s, PayloadEvents, MaxEvents)

NextNormalizer ==
    \/ CreateTrace(MainSession)
    \/ OpenRootSpan(MainSession)
    \/ InvokeAgent(MainSession)
    \/ NextPayload(MainSession)
    \/ ProcessChunk(MainSession)
    \/ ChunkError(MainSession)
    \/ LoopBack(MainSession)
    \/ EndRootSpan(MainSession)
    \/ CloseOnError(MainSession)
    \/ UpdateTrace(MainSession)

SpecNormalizer == Init /\ [][NextNormalizer]_vars

(***************************************************************************)
(* C13.  _safe_json_loads never raises and always returns a mapping: text  *)
(* that is JSON gives the parsed value, other text {content: text}; bytes  *)
(* that fail to decode or to parse give {content: str(bytes)}; a dict is   *)
(* returned unchanged; any other value gives {content: str(value)}.        *)
(***************************************************************************)
C13_NormalizerReturnsMapping ==
    \A s \in Sessions :
        (/\ pc[s] \in {"chunk_done", "chunk_except"}
         /\ HasKey(cur[s], "modelInvocationInput")
         /\ HasKey(cur[s], "modelInvocationOutput")
         /\ cur[s].fault = "none")
        => LET data == IF cur[s].content = NoContent
                       THEN [kind |-> "str", body |-> "empty"] ELSE cur[s].content
               isJson == data.body \in {"obj", "num"}
           IN  /\ pc[s] = "chunk_done"
               /\ Len(ops[s]) = 2
               /\ ops[s][2].op = "generation.end"
               /\ LET out == ops[s][2].output.dumps
                  IN  /\ out.t = "dict"
                      /\ (data.kind = "str" /\ ~isJson) =>
                             out = [t |-> "dict", content |-> [text |-> data.body]]
                      /\ (data.kind = "bytes" /\ ~isJson) =>
                             out = [t |-> "dict", content |-> [str |-> data]]
                      /\ (data.kind \in {"str", "bytes"} /\ isJson) => out.json = data.body
                      /\ data.kind = "dict" => out = [t |-> "dict", json |-> data.body]
                      /\ data.kind = "other" =>
                             out = [t |-> "dict", content |-> [str |-> data]]


(***************************************************************************)
(* C14.  A generation still open when the stream is exhausted is surfaced: *)
(* the session does not complete with a plain success result while nothing *)
(* on the trace or the root span records the unterminated generation.      *)
(***************************************************************************)
C14_LeakedGenerationIsSurfaced ==
    \A s \in Sessions :
        (Completed(s) /\ openGens[s] # {}) =>
            \/ traceMeta[s] # << >>
            \/ \E i \in DOMAIN rootEnds[s] : rootEnds[s][i].error # NoExc
            \/ errEvents[s] > 0
            \/ DOMAIN result[s] # {"status", "trace_id"}


(***************************************************************************)
(* C15.  When opening the root span fails, the agent backend is never      *)
(* invoked and end is never invoked on a root span, yet (the sink          *)
(* accepting the update) the trace gets the error metadata and the call    *)
(* returns {status: error, message}.  In every session, end is invoked     *)
(* only on a root span that was opened.                                    *)
(***************************************************************************)
C15_RootSpanOpenFailure ==
    \A s \in Sessions :
        /\ rootEnds[s] # << >> => spanBound[s] /\ rootState[s] # "unopened"
        /\ exc[s] = "error at span" =>
            /\ pc[s] \in {"except", "update", "done"}
            /\ ~spanBound[s]
            /\ rootState[s] = "unopened"
            /\ rootEnds[s] = << >>
            /\ consumed[s] = 0 /\ processed[s] = 0 /\ ops[s] = << >>
            /\ ~Completed(s)
            /\ pc[s] \in {"except", "update"} => traceMeta[s] = << >>
            /\ Failed(s) =>
                   /\ traceMeta[s] = <<[error |-> "error at span"]>>
                   /\ result[s] = [status |-> "error", message |-> "error at span"]

C15_Witness ==
    /\ Failed(MainSession)
    /\ exc[MainSession] = "error at span"
    /\ rootEnds[MainSession] = << >>
    /\ Len(traceMeta[MainSession]) = 1


(***************************************************************************)
(* Several calls of trace_agent_interaction on one tracer, their steps     *)
(* interleaved.  Each call draws its stream from two events: a record that *)
(* opens and ends a generation and a collaborator span, and a record whose *)
(* output handling fails and leaves its generation open.                   *)
(***************************************************************************)
MaxConcEvents == 1

ConcEvent(keys, obsKeys, hasName, fault) ==
    [nav |-> "ok", keys |-> keys, content |-> NoContent, meta |-> "nometa",
     inTok |-> Absent, outTok |-> Absent, obsKeys |-> obsKeys, hasName |-> hasName,
     fault |-> fault]

ConcEvents ==
    {ConcEvent(<<"modelInvocationInput", "modelInvocationOutput", "observation">>,
               {"agentCollaboratorInvocationOutput"}, TRUE, "none"),
     ConcEvent(<<"modelInvocationInput", "modelInvocationOutput">>, {}, FALSE, "output")}

NextConcEvent(s) == PullEvent(s, ConcEvents, MaxConcEvents)

concurrent_interaction(s) ==
    \/ CreateTrace(s)
    \/ OpenRootSpan(s)
    \/ InvokeAgent(s)
    \/ NextConcEvent(s)
    \/ ProcessChunk(s)
    \/ ChunkError(s)
    \/ LoopBack(s)
    \/ EndRootSpan(s)
    \/ CloseOnError(s)
    \/ UpdateTrace(s)

NextConcurrent == \E s \in Sessions : concurrent_interaction(s)

SpecConcurrent == Init /\ [][NextConcurrent]_vars


(***************************************************************************)
(* C16.  Concurrent sessions share nothing: a step of one call changes the *)
(* locals and the trace, root span and handles of that call only, every    *)
(* operation of a call is on a handle the sink handed to that call, and a  *)
(* completed call returns its own session id.                              *)
(***************************************************************************)
SessionState(s) ==
    <<pc[s], spanBound[s], exc[s], cur[s], consumed[s], result[s], traceMade[s],
      traceMeta[s], rootState[s], rootEnds[s], nextHandle[s], openGens[s],
      openSpans[s], ops[s], processed[s], failed[s], errEvents[s]>>

OwnHandles(s) ==
    /\ \A i \in DOMAIN ops[s] :
           ops[s][i].op \in {"generation", "generation.end", "span", "span.end"} =>
               ops[s][i].id \in 1..(nextHandle[s] - 1)
    /\ openGens[s] \cup openSpans[s] \subseteq 1..(nextHandle[s] - 1)
    /\ rootEnds[s] # << >> => spanBound[s]
    /\ (traceMeta[s] # << >> \/ spanBound[s]) => traceMade[s]
    /\ Completed(s) => result[s].trace_id = s

C16_SessionsAreIndependent ==
    [][\A s \in Sessions :
        /\ pc'[s] # pc[s] =>
               \A t \in Sessions \ {s} : SessionState(t)' = SessionState(t)
        /\ OwnHandles(s)']_vars

\* two calls are under way at once, each holding handle 1 of its own trace
C16_Witness ==
    /\ NumSessions >= 2
    /\ pc[1] = "chunk_done" /\ cur[1].fault = "none"
    /\ pc[2] = "chunk_except"
    /\ openGens[1] = {} /\ openGens[2] = {1}
    /\ Len(ops[1]) = 4 /\ Len(ops[2]) = 1


(***************************************************************************)
(* C17.  When the iteration of the stream raises after k events, those k   *)
(* events have each been processed once and none is consumed or processed  *)
(* afterwards; (the sink accepting the close and the update) the root span *)
(* is closed once with the message, then the trace is updated with         *)
(* {error: message}, and the call returns {status: error, message}, never  *)
(* success.                                                                *)
(***************************************************************************)
StreamFailed(s) == exc[s] = "error at stream"

C17_StreamIterationFailure ==
    [][\A s \in Sessions :
        /\ StreamFailed(s) =>
               /\ consumed'[s] = consumed[s] /\ processed'[s] = processed[s]
               /\ errEvents'[s] = errEvents[s] /\ nextHandle'[s] = nextHandle[s]
        /\ StreamFailed(s)' =>
               /\ pc'[s] \in {"except", "update", "done"}
               /\ processed'[s] = consumed'[s]
               /\ errEvents'[s] = failed'[s]
               /\ ~Completed(s)'
               /\ spanBound'[s]
               /\ pc'[s] = "except" => rootEnds'[s] = << >> /\ traceMeta'[s] = << >>
               /\ pc'[s] = "update" =>
                      /\ rootEnds'[s] = <<[error |-> "error at stream", raised |-> FALSE]>>
                      /\ rootState'[s] = "closed"
                      /\ traceMeta'[s] = << >>
               /\ Failed(s)' =>
                      /\ rootEnds'[s] = <<[error |-> "error at stream", raised |-> FALSE]>>
                      /\ rootState'[s] = "closed"
                      /\ traceMeta'[s] = <<[error |-> "error at stream"]>>
                      /\ result'[s] = [status |-> "error", message |-> "error at stream"]]_vars

\* the iteration raised after one event was delivered and processed
C17_Witness ==
    /\ Failed(MainSession)
    /\ StreamFailed(MainSession)
    /\ consumed[MainSession] = 1 /\ processed[MainSession] = 1
    /\ Len(traceMeta[MainSession]) = 1


(***************************************************************************)
(* C18.  The trace is written after its creation only to attach error      *)
(* metadata: a call that returned success never updated it, a call that    *)
(* returned an error updated it exactly once, with {error: message} of the *)
(* message it returns; no call returns both, and the trace is never taken  *)
(* back.                                                                   *)
(***************************************************************************)
C18_TraceUpdatedOnlyOnError ==
    [][\A s \in Sessions :
        /\ traceMeta'[s] # traceMeta[s] =>
               /\ pc[s] = "update" /\ traceMade[s]
               /\ traceMeta[s] = << >>
               /\ traceMeta'[s] = <<[error |-> exc[s]]>>
               /\ exc[s] # NoExc
               /\ Failed(s)'
        /\ traceMade[s] => traceMade'[s]
        /\ Completed(s)' => traceMeta'[s] = << >>
        /\ Failed(s)' => traceMeta'[s] = <<[error |-> result'[s].message]>>
        /\ ~(Completed(s)' /\ Failed(s)')
        /\ Returned(s) => result'[s] = result[s] /\ traceMeta'[s] = traceMeta[s]]_vars

\* the normal close of the root span raised: the handler closed it again and
\* the one update of the trace carries that message
C18_Witness ==
    /\ Failed(MainSession)
    /\ traceMeta[MainSession] = <<[error |-> "error at end"]>>
    /\ Len(rootEnds[MainSession]) = 2


(***************************************************************************)
(* One call whose steps are scheduled fairly: a step that can be taken is  *)
(* eventually taken, as the interpreter runs the statements of the method  *)
(* one after the other.  The stream is drawn from the two records of       *)
(* ConcEvents; every collaborator call may raise, as in Spec.              *)
(***************************************************************************)
NextFairEvent(s) == PullEvent(s, ConcEvents, MaxEvents)

fair_interaction(s) ==
    \/ CreateTrace(s) \/ OpenRootSpan(s) \/ InvokeAgent(s) \/ NextFairEvent(s)
    \/ ProcessChunk(s) \/ ChunkError(s) \/ LoopBack(s) \/ EndRootSpan(s)
    \/ CloseOnError(s) \/ UpdateTrace(s)

NextFair == fair_interaction(MainSession)

FairSpec == Init /\ [][NextFair]_vars /\ WF_vars(NextFair)

(***************************************************************************)
(* C19.  Under fair scheduling a call whose root span was opened           *)
(* eventually has returned {status: success, ...} or {status: error, ...}. *)
(***************************************************************************)
C19_EventuallyCompletedOrFailed ==
    \A s \in Sessions : (rootState[s] = "open") ~> (Completed(s) \/ Failed(s))


(***************************************************************************)
(* C20.  No open generation is carried from one record to the next: a      *)
(* generation.end is invoked only on the generation opened earlier in the  *)
(* processing of the same record, a generation left open by a record stays *)
(* open, a record opens one generation exactly when its                    *)
(* modelInvocationInput is reached and the sink accepts the call, and ends *)
(* one exactly when it has both modelInvocationInput and                   *)
(* modelInvocationOutput and its output handling does not fail.            *)
(***************************************************************************)
InputReached(ev) ==
    ev.nav = "ok" /\ HasKey(ev, "modelInvocationInput") /\ ev.fault \notin {"nav", "input"}

OutputHandled(ev) ==
    InputReached(ev) /\ HasKey(ev, "modelInvocationOutput") /\ ev.fault # "output"

C20_NoGenerationStateAcrossRecords ==
    [][\A s \in Sessions :
        /\ Reduced(s) =>
            LET q == ops'[s] IN
            /\ \A j \in OpsOf(q, "generation.end") :
                   /\ q[j].id >= nextHandle[s]
                   /\ \E i \in OpsOf(q, "generation") : i < j /\ q[i].id = q[j].id
            /\ openGens[s] \subseteq openGens'[s]
            /\ Cardinality(OpsOf(q, "generation")) = IF InputReached(cur[s]) THEN 1 ELSE 0
            /\ Cardinality(OpsOf(q, "generation.end")) = IF OutputHandled(cur[s]) THEN 1 ELSE 0
            /\ Cardinality(openGens'[s]) = Cardinality(openGens[s])
                   + (IF InputReached(cur[s]) /\ ~OutputHandled(cur[s]) THEN 1 ELSE 0)
        /\ ~Reduced(s) => openGens'[s] = openGens[s]]_vars

\* a second record opened and ended its own generation while the generation
\* of the first record stayed open
C20_Witness ==
    /\ pc[MainSession] = "chunk_done"
    /\ processed[MainSession] = 2
    /\ openGens[MainSession] = {1}
    /\ \E i, j \in DOMAIN ops[MainSession] :
           /\ i < j
           /\ ops[MainSession][i].op = "generation" /\ ops[MainSession][i].id = 2
           /\ ops[MainSession][j].op = "generation.end" /\ ops[MainSession][j].id = 2

====
